---- MODULE Spec2Model ----
(***************************************************************************)
(* Model of bloblob (src/index.js, library variant, lines 1-211): the      *)
(* Pushover dispatcher `Bloblob` (constructor, lob, lobToAll, postToApi,   *)
(* generateUrl) and the settle aggregator `allPromisesSettled`.            *)
(*                                                                         *)
(* JavaScript values are records tagged by `t` ("undefined", "null",       *)
(* "string", "number", "Error").  The event loop is explicit: a macrotask  *)
(* (the transport callback, the simulate-mode timer) runs only when the    *)
(* microtask queue is empty, and promise reactions are microtasks run in   *)
(* FIFO order.                                                             *)
(***************************************************************************)
EXTENDS Integers, Sequences, FiniteSets, TLC

VARIABLES
    ctorArg,     \* the argument `new Bloblob(appToken)` was called with
    appToken,    \* this.appToken of the Bloblob instance
    NO_POST,     \* module constant read from process.env['PO_SIMULATE']
    call,        \* the one call made on the instance and its arguments
    pms,         \* the promises returned by postToApi, in recipient order
    req,         \* per recipient: the request.concat call and its callback
    timers,      \* per recipient: the simulate-mode setTimeout
    results,     \* allPromisesSettled: the `results` array
    agg,         \* allPromisesSettled: state of the returned promise
    okCalls,     \* number of times ok(results) has been invoked
    writes,      \* per slot: number of assignments results[i] = ret
    ret,         \* the promise the async method returned to the caller
    microtasks   \* the pending promise jobs, oldest first

vars == <<ctorArg, appToken, NO_POST, call, pms, req, timers, results, agg, okCalls,
          writes, ret, microtasks>>

(***************************************************************************)
(* Bounds of the model.                                                    *)
(***************************************************************************)
MaxRecipients == 2

(***************************************************************************)
(* Program constants.                                                      *)
(***************************************************************************)
MaxMessageLength == 1024
API_EP_MESSAGES == "https://api.pushover.net/1/messages.json"
SimulatedRequestId == "01234567-8888-9999-0000-deadbeefcafe"

(***************************************************************************)
(* JavaScript values.                                                      *)
(***************************************************************************)
Undefined == [t |-> "undefined"]
Null == [t |-> "null"]
Str(s) == [t |-> "string", v |-> s]
Num(n) == [t |-> "number", v |-> n]

\* `! x` for the values the model uses
Falsy(x) ==
    \/ x.t \in {"undefined", "null"}
    \/ x.t = "string" /\ x.v = ""
    \/ x.t = "number" /\ x.v = 0

\* `x == null` (loose equality): true of null and undefined only
LooseNull(x) == x.t \in {"undefined", "null"}

\* String(x), as URLSearchParams and template literals stringify a value
ToStr(x) ==
    CASE x.t = "string" -> x.v
      [] x.t = "number" -> ToString(x.v)
      [] x.t = "null" -> "null"
      [] OTHER -> "undefined"

\* new Error(msg), optionally with a .target property
Err(name, msg, target) ==
    [t |-> "Error", name |-> name, message |-> msg, target |-> target]

NewError(msg) == Err("Error", msg, Undefined)

targetError(target, msg) == Err("Error", msg, target)

\* the exception of reading a property of undefined or null
TypeErr(what) == Err("TypeError", what, Undefined)

IsError(x) == x.t = "Error"

RECURSIVE Repeat(_, _)
Repeat(s, n) ==
    IF n = 0 THEN ""
    ELSE IF n % 2 = 0 THEN LET h == Repeat(s, n \div 2) IN h \o h
    ELSE s \o Repeat(s, n - 1)

(***************************************************************************)
(* Inputs.                                                                 *)
(***************************************************************************)
AppTokenArgs == {Undefined, Str(""), Str("app"), Num(42)}
UserTokens == {Str(""), Str("u1")}
LobUserTokens == {Undefined, Str(""), Str("u1")}
LongestOk == Str(Repeat("x", MaxMessageLength))
TooLong == Str(Repeat("x", MaxMessageLength + 1))
LobMessages == {Undefined, Str(""), Str("hi"), LongestOk, TooLong}
AllMessages == {Undefined, Str(""), Str("hi"), TooLong}
Titles == {Undefined, Str(""), Str("T")}
AllTitles == {Undefined}
Devices == {Undefined, Str(""), Str("iphone")}

RecipientLists ==
    UNION {[1..n -> UserTokens] : n \in 0..MaxRecipients}

(***************************************************************************)
(* Transport responses: the arguments (err, res, data) of the callback.    *)
(***************************************************************************)
TransportError == NewError("ECONNREFUSED")

BodyRequest == "{\"request\":\"abc-123\"}"
BodyRequestNull == "{\"request\":null}"
BodyEmptyObject == "{}"
BodyErrors == "{\"errors\":[\"invalid token\",\"user inactive\"]}"
BodyNull == "null"
BodyNotJson == "<html>Bad Gateway</html>"

Bodies ==
    {BodyRequest, BodyRequestNull, BodyEmptyObject, BodyErrors, BodyNull,
     BodyNotJson}

Statuses == {200, 429, 500}

Responses ==
    {[err |-> TransportError, statusCode |-> 0, data |-> Undefined],
     [err |-> TransportError, statusCode |-> 0, data |-> Str("")]}
    \cup
    {[err |-> Null, statusCode |-> s, data |-> Str(b)] :
        s \in Statuses, b \in Bodies}

\* JSON.parse on the response texts above: the parsed value, or a SyntaxError
JSONParse(text) ==
    CASE text = BodyRequest ->
            [ok |-> TRUE,
             json |-> [t |-> "object", request |-> Str("abc-123"),
                       errors |-> Undefined]]
      [] text = BodyRequestNull ->
            [ok |-> TRUE,
             json |-> [t |-> "object", request |-> Null,
                       errors |-> Undefined]]
      [] text = BodyEmptyObject ->
            [ok |-> TRUE,
             json |-> [t |-> "object", request |-> Undefined,
                       errors |-> Undefined]]
      [] text = BodyErrors ->
            [ok |-> TRUE,
             json |-> [t |-> "object", request |-> Undefined,
                       errors |-> [t |-> "array",
                                   v |-> <<"invalid token", "user inactive">>]]]
      [] text = BodyNull -> [ok |-> TRUE, json |-> Null]
      [] OTHER ->
            [ok |-> FALSE,
             exc |-> Err("SyntaxError", "Unexpected token in JSON", Undefined)]

\* Array.prototype.join
RECURSIVE Join(_, _)
Join(arr, sep) ==
    IF Len(arr) = 0 THEN ""
    ELSE IF Len(arr) = 1 THEN arr[1]
    ELSE arr[1] \o sep \o Join(Tail(arr), sep)

(***************************************************************************)
(* Promises.                                                               *)
(***************************************************************************)
Pending == [state |-> "pending", value |-> Undefined]
Fulfilled(v) == [state |-> "fulfilled", value |-> v]
Rejected(v) == [state |-> "rejected", value |-> v]
Settled(p) == p.state # "pending"

\* resolve(v) / reject(v) of a promise: a no-op once it is settled
Resolve(p, v) == IF p.state = "pending" THEN Fulfilled(v) ELSE p
Reject(p, v) == IF p.state = "pending" THEN Rejected(v) ELSE p

NoRequest == [status |-> "none", url |-> Undefined, exc |-> Undefined]

(***************************************************************************)
(* Bloblob.constructor: appToken is kept only when it is a string.        *)
(***************************************************************************)
Constructor(arg) == IF arg.t = "string" THEN arg ELSE Undefined

(***************************************************************************)
(* Bloblob[generateUrl]: the query parameters in insertion order, each     *)
(* value stringified, or the TypeError of reading title.length.            *)
(***************************************************************************)
IncludeTitle(title) == title.t = "string" /\ Len(title.v) > 0

\* `typeof device === 'string' && title.length > 0`: device guarded by title
IncludeDevice(title, device) ==
    device.t = "string" /\ title.t = "string" /\ Len(title.v) > 0

DeviceTestThrows(title, device) ==
    device.t = "string" /\ title.t \in {"undefined", "null"}

generateUrl(userToken, message, title, device) ==
    IF DeviceTestThrows(title, device)
    THEN [ok |-> FALSE,
          exc |-> TypeErr("Cannot read properties of undefined (reading 'length')")]
    ELSE [ok |-> TRUE,
          url |-> [endpoint |-> API_EP_MESSAGES,
                   params |->
                       <<<<"token", ToStr(appToken)>>,
                         <<"user", ToStr(userToken)>>,
                         <<"message", ToStr(message)>> >>
                       \o (IF IncludeTitle(title)
                           THEN << <<"title", ToStr(title)>> >> ELSE << >>)
                       \o (IF IncludeDevice(title, device)
                           THEN << <<"device", ToStr(device)>> >> ELSE << >>)]]

(***************************************************************************)
(* Bloblob[postToApi], the promise executor (runs synchronously): the      *)
(* promise, the transport request and the timer it leaves behind.          *)
(***************************************************************************)
\* mutant: the length test off by one
MessageTooLongOffByOne(message) == Len(message.v) > MaxMessageLength + 1

MessageTooLong(message) == Len(message.v) > MaxMessageLength

postToApi(target, message, title, device) ==
    IF message.t \in {"undefined", "null"}
    THEN \* message.length throws inside the executor: the promise rejects
         [pm |-> Rejected(TypeErr("Cannot read properties of undefined (reading 'length')")),
          req |-> NoRequest, timer |-> "none"]
    ELSE IF MessageTooLong(message)
    THEN [pm |-> Rejected(targetError(target, "Message is too long")),
          req |-> NoRequest, timer |-> "none"]
    ELSE LET u == generateUrl(target, message, title, device) IN
         IF ~u.ok
         THEN [pm |-> Rejected(u.exc), req |-> NoRequest, timer |-> "none"]
         ELSE IF NO_POST
         THEN [pm |-> Pending, req |-> NoRequest, timer |-> "armed"]
         ELSE [pm |-> Pending,
               req |-> [status |-> "inflight", url |-> u.url, exc |-> Undefined],
               timer |-> "none"]

(***************************************************************************)
(* The transport callback (err, res, data) => {...} of postToApi: what it  *)
(* does to the promise, or the exception that escapes it.                  *)
(***************************************************************************)
\* mutant: errors.join() with the default separator
HttpErrorMessageCommaJoin(statusCode, errors) ==
    "HTTP " \o ToString(statusCode) \o ": " \o Join(errors, ",")

HttpErrorMessage(statusCode, errors) ==
    "HTTP " \o ToString(statusCode) \o ": " \o Join(errors, " ")

\* mutant: the raw response text is left out of the message
MalformedMessageWithoutText(strData) == "Response malformed?"

MalformedMessage(strData) ==
    "Response from pushover.net is malformed? " \o strData

CallbackNon200(target, statusCode, strData) ==
    LET parsed == JSONParse(strData) IN
    IF ~parsed.ok THEN [kind |-> "throw", value |-> parsed.exc]
    ELSE IF parsed.json.t # "object"
    THEN [kind |-> "throw",
          value |-> TypeErr("Cannot read properties of null (reading 'errors')")]
    ELSE IF parsed.json.errors.t # "array"
    THEN [kind |-> "throw",
          value |-> TypeErr("Cannot read properties of undefined (reading 'join')")]
    ELSE [kind |-> "reject",
          value |-> targetError(target,
                        HttpErrorMessage(statusCode, parsed.json.errors.v))]

Callback200(target, strData) ==
    LET parsed == JSONParse(strData) IN
    IF parsed.ok /\ parsed.json.t = "object"
    THEN [kind |-> "resolve", value |-> parsed.json.request]
    ELSE \* SyntaxError of JSON.parse or TypeError of json.request: caught
         [kind |-> "reject",
          value |-> targetError(target, MalformedMessage(strData))]

TransportErrorBranch(resp) ==
    IF ~Falsy(resp.err) THEN [taken |-> TRUE, kind |-> "reject", value |-> resp.err]
    ELSE [taken |-> FALSE]

Callback(target, resp) ==
    IF resp.data.t \in {"undefined", "null"}
    THEN \* data.toString('utf8') throws before err is looked at
         [kind |-> "throw",
          value |-> TypeErr("Cannot read properties of undefined (reading 'toString')")]
    ELSE LET e == TransportErrorBranch(resp) IN
         IF e.taken THEN [kind |-> e.kind, value |-> e.value]
         ELSE IF resp.statusCode # 200
         THEN CallbackNon200(target, resp.statusCode, resp.data.v)
         ELSE Callback200(target, resp.data.v)

ApplyOutcome(p, o) ==
    CASE o.kind = "resolve" -> Resolve(p, o.value)
      [] o.kind = "reject" -> Reject(p, o.value)
      [] OTHER -> p

(***************************************************************************)
(* allPromisesSettled.                                                     *)
(***************************************************************************)
\* mutant: the scan loop ends one slot early (j < results.length - 1)
AllFilledSkipLast(res) == \A j \in 1..(Len(res) - 1) : ~LooseNull(res[j])

\* mutant: the scan stops at the first filled slot instead of the first empty one
AnyFilled(res) == \E j \in 1..Len(res) : ~LooseNull(res[j])

\* the scan `for (j ...) if (results[j] == null) return;` finds no empty slot
AllFilled(res) == \A j \in 1..Len(res) : ~LooseNull(res[j])

ReactJob(i) == [job |-> "react", i |-> i]
RetJob == [job |-> "ret", i |-> 0]

\* promiseList[i].then(fillAndCheck(i), fillAndCheck(i)) for i = 0..length-1:
\* a promise that is already settled queues its reaction at once
RECURSIVE AttachHandlers(_, _)
AttachHandlers(promiseList, i) ==
    IF i > Len(promiseList) THEN << >>
    ELSE (IF Settled(promiseList[i]) THEN <<ReactJob(i)>> ELSE << >>)
         \o AttachHandlers(promiseList, i + 1)

\* mutant: every handler writes the same slot (results[0] = ret)
SlotShared(i) == 1

\* mutant: outcomes stored in completion order (results.push(ret))
SlotInCompletionOrder(i) ==
    Cardinality({j \in 1..Len(writes) : writes[j] > 0}) + 1

\* the slot fillAndCheck(i) writes
SlotOf(i) == i

\* mutant: only the success handler is attached (then(fillAndCheck(i))), so a
\* rejection is never recorded
FillAndCheckSuccessOnly(i, outcome) ==
    LET skip == pms[i].state = "rejected"
        filled == IF skip THEN results ELSE [results EXCEPT ![i] = outcome]
        done == ~skip /\ AllFilled(filled)
    IN /\ results' = filled
       /\ writes' = IF skip THEN writes ELSE [writes EXCEPT ![i] = @ + 1]
       /\ okCalls' = IF done THEN okCalls + 1 ELSE okCalls
       /\ agg' = IF done /\ agg = "pending" THEN "resolved" ELSE agg
       /\ microtasks' = Tail(microtasks)
                        \o (IF done /\ agg = "pending" THEN <<RetJob>> ELSE << >>)

\* fillAndCheck(i)(ret): record the outcome, scan, resolve
FillAndCheck(i, outcome) ==
    LET filled == [results EXCEPT ![SlotOf(i)] = outcome]
        done == AllFilled(filled)
    IN /\ results' = filled
       /\ writes' = [writes EXCEPT ![SlotOf(i)] = @ + 1]
       /\ okCalls' = IF done THEN okCalls + 1 ELSE okCalls
       /\ agg' = IF done /\ agg = "pending" THEN "resolved" ELSE agg
       /\ microtasks' = Tail(microtasks)
                        \o (IF done /\ agg = "pending" THEN <<RetJob>> ELSE << >>)

(***************************************************************************)
(* State after `new Bloblob(appToken)`.                                    *)
(***************************************************************************)
NoCall ==
    [op |-> "none", userTokens |-> << >>, message |-> Undefined,
     title |-> Undefined, device |-> Undefined]

Init ==
    /\ ctorArg \in AppTokenArgs
    /\ appToken = Constructor(ctorArg)
    /\ NO_POST \in BOOLEAN
    /\ call = NoCall
    /\ pms = << >>
    /\ req = << >>
    /\ timers = << >>
    /\ results = << >>
    /\ agg = "none"
    /\ okCalls = 0
    /\ writes = << >>
    /\ ret = Pending
    /\ microtasks = << >>

(***************************************************************************)
(* Bloblob.lob                                                             *)
(***************************************************************************)
\* mutant: the user token check is missing
LobValidationNoUserCheck(userToken, message) ==
    IF Falsy(appToken) THEN [ok |-> FALSE, exc |-> NewError("No application token!")]
    ELSE IF Falsy(message) THEN [ok |-> FALSE, exc |-> NewError("No message!")]
    ELSE [ok |-> TRUE]

\* the validation of lob: the error thrown, or none
LobValidation(userToken, message) ==
    IF Falsy(appToken) THEN [ok |-> FALSE, exc |-> NewError("No application token!")]
    ELSE IF Falsy(userToken) THEN [ok |-> FALSE, exc |-> NewError("No user token provided!")]
    ELSE IF Falsy(message) THEN [ok |-> FALSE, exc |-> NewError("No message!")]
    ELSE [ok |-> TRUE]

lob(userToken, message, title, device) ==
    /\ call.op = "none"
    /\ call' = [op |-> "lob", userTokens |-> <<userToken>>, message |-> message,
                title |-> title, device |-> device]
    /\ LET v == LobValidation(userToken, message) IN
       IF ~v.ok
       THEN /\ ret' = Rejected(v.exc)
            /\ UNCHANGED <<pms, req, timers, microtasks>>
       ELSE LET s == postToApi(userToken, message, title, device) IN
            /\ pms' = <<s.pm>>
            /\ req' = <<s.req>>
            /\ timers' = <<s.timer>>
            /\ ret' = Pending
            /\ microtasks' = IF Settled(s.pm) THEN <<RetJob>> ELSE << >>
    /\ UNCHANGED <<ctorArg, appToken, NO_POST, results, agg, okCalls, writes>>

(***************************************************************************)
(* Bloblob.lobToAll                                                        *)
(***************************************************************************)
\* mutant: sequential launch (await inside the loop): only the first
\* submission has been started when the method yields
lobToAllSequential(userTokens, message, title) ==
    /\ call.op = "none"
    /\ call' = [op |-> "lobToAll", userTokens |-> userTokens, message |-> message,
                title |-> title, device |-> Undefined]
    /\ LET n == Len(userTokens)
           s == [i \in 1..n |->
                   IF i = 1 THEN postToApi(userTokens[i], message, title, Undefined)
                   ELSE [pm |-> Pending, req |-> NoRequest, timer |-> "none"]]
           promiseList == [i \in 1..n |-> s[i].pm]
       IN /\ pms' = promiseList
          /\ req' = [i \in 1..n |-> s[i].req]
          /\ timers' = [i \in 1..n |-> s[i].timer]
          /\ results' = [i \in 1..n |-> Undefined]
          /\ writes' = [i \in 1..n |-> 0]
          /\ microtasks' = AttachHandlers(promiseList, 1)
    /\ agg' = "pending"
    /\ ret' = Pending
    /\ UNCHANGED <<ctorArg, appToken, NO_POST, okCalls>>

lobToAll(userTokens, message, title) ==
    /\ call.op = "none"
    /\ call' = [op |-> "lobToAll", userTokens |-> userTokens, message |-> message,
                title |-> title, device |-> Undefined]
    /\ LET n == Len(userTokens)
           s == [i \in 1..n |-> postToApi(userTokens[i], message, title, Undefined)]
           promiseList == [i \in 1..n |-> s[i].pm]
       IN /\ pms' = promiseList
          /\ req' = [i \in 1..n |-> s[i].req]
          /\ timers' = [i \in 1..n |-> s[i].timer]
          /\ results' = [i \in 1..n |-> Undefined]
          /\ writes' = [i \in 1..n |-> 0]
          /\ microtasks' = AttachHandlers(promiseList, 1)
    /\ agg' = "pending"
    /\ ret' = Pending
    /\ UNCHANGED <<ctorArg, appToken, NO_POST, okCalls>>

(***************************************************************************)
(* Macrotasks: they run only when no promise job is pending.               *)
(***************************************************************************)
\* the reaction a settling postToApi promise queues
ReactionOf(i) == IF call.op = "lobToAll" THEN ReactJob(i) ELSE RetJob

\* request.concat invokes the callback of recipient i with (err, res, data)
TransportCallback(i, resp) ==
    /\ microtasks = << >>
    /\ i \in 1..Len(req)
    /\ req[i].status = "inflight"
    /\ LET o == Callback(call.userTokens[i], resp) IN
       /\ req' = [req EXCEPT ![i] =
                    IF o.kind = "throw"
                    THEN [@ EXCEPT !.status = "threw", !.exc = o.value]
                    ELSE [@ EXCEPT !.status = "done"]]
       /\ pms' = [pms EXCEPT ![i] = ApplyOutcome(@, o)]
       /\ microtasks' = IF o.kind = "throw" THEN << >> ELSE <<ReactionOf(i)>>
    /\ UNCHANGED <<ctorArg, appToken, NO_POST, call, timers, results, agg, okCalls,
                   writes, ret>>

\* simulate mode: the setTimeout of recipient i fires
TimerFires(i) ==
    /\ microtasks = << >>
    /\ i \in 1..Len(timers)
    /\ timers[i] = "armed"
    /\ timers' = [timers EXCEPT ![i] = "fired"]
    /\ pms' = [pms EXCEPT ![i] = Resolve(@, Str(SimulatedRequestId))]
    /\ microtasks' = <<ReactionOf(i)>>
    /\ UNCHANGED <<ctorArg, appToken, NO_POST, call, req, results, agg, okCalls,
                   writes, ret>>

(***************************************************************************)
(* Microtasks.                                                             *)
(***************************************************************************)
\* the handler fillAndCheck(i) attached to promiseList[i] runs
RunReaction ==
    /\ microtasks # << >>
    /\ Head(microtasks).job = "react"
    /\ LET i == Head(microtasks).i IN FillAndCheck(i, pms[i].value)
    /\ UNCHANGED <<ctorArg, appToken, NO_POST, call, pms, req, timers, ret>>

\* the promise of the async method adopts the promise its body returned
SettleReturned ==
    /\ microtasks # << >>
    /\ Head(microtasks).job = "ret"
    /\ ret' = IF call.op = "lob" THEN pms[1]
              ELSE Fulfilled([t |-> "array", v |-> results])
    /\ microtasks' = Tail(microtasks)
    /\ UNCHANGED <<ctorArg, appToken, NO_POST, call, pms, req, timers, results, agg,
                   okCalls, writes>>

Next ==
    \/ \E u \in LobUserTokens, m \in LobMessages, t \in Titles, d \in Devices :
          lob(u, m, t, d)
    \/ \E us \in RecipientLists, m \in AllMessages, t \in AllTitles :
          lobToAll(us, m, t)
    \/ \E i \in 1..MaxRecipients, r \in Responses : TransportCallback(i, r)
    \/ \E i \in 1..MaxRecipients : TimerFires(i)
    \/ RunReaction
    \/ SettleReturned

Spec == Init /\ [][Next]_vars

(***************************************************************************)
(* Vocabulary of the properties.                                           *)
(***************************************************************************)
Batch == call.op = "lobToAll"
Single == call.op = "lob"
NumRecipients == Len(call.userTokens)
Recipients == 1..NumRecipients
Quiescent == microtasks = << >>
NoTransportCall == \A i \in 1..Len(req) : req[i].status = "none"
NoTimer == \A i \in 1..Len(timers) : timers[i] = "none"
IsSuccessOf(i, v) == pms[i].state = "fulfilled" /\ v = pms[i].value
IsFailureOf(i, v) == pms[i].state = "rejected" /\ v = pms[i].value
\* a call a careful caller makes: credential, recipients and body all present
WellFormed ==
    /\ ~Falsy(appToken)
    /\ call.message = Str("hi")
    /\ \A i \in Recipients : ~Falsy(call.userTokens[i])
TooLongError(target) == Err("Error", "Message is too long", target)
BodyIsTooLong == call.message.t = "string" /\ Len(call.message.v) > 1024
ErrorWithoutData == [err |-> TransportError, statusCode |-> 0, data |-> Undefined]
ErrorsResponse(status) == [err |-> Null, statusCode |-> status, data |-> Str(BodyErrors)]

(***************************************************************************)
(* C1: whenever the aggregate of lobToAll is resolved, its value has       *)
(* exactly one entry per recipient and the i-th entry is the outcome       *)
(* (success value or error) that the i-th recipient's submission settled   *)
(* with, whatever the order of completion.                                 *)
(***************************************************************************)
C1_IndexAligned ==
    (Batch /\ agg = "resolved") =>
        /\ Len(results) = NumRecipients
        /\ \A i \in Recipients :
              /\ Settled(pms[i])
              /\ results[i] = pms[i].value
        /\ ret.state = "fulfilled" =>
              ret.value = [t |-> "array", v |-> [i \in Recipients |-> pms[i].value]]

\* two recipients answered over the transport with different outcomes
C1_Witness ==
    /\ Batch /\ agg = "resolved" /\ ret.state = "fulfilled"
    /\ NumRecipients = 2
    /\ req[1].status = "done" /\ req[2].status = "done"
    /\ pms[1].state = "fulfilled" /\ pms[2].state = "rejected"

(***************************************************************************)
(* C2: when, in lobToAll, exactly one submission has failed, all others    *)
(* have succeeded and every completion handler has run, the aggregate is   *)
(* resolved, the failed recipient's slot holds its failure and every other *)
(* slot holds the success value of its own recipient.  Stated for calls    *)
(* with a credential, non-empty recipients and the body "hi".              *)
(***************************************************************************)
C2_NoCrossContamination ==
    \A i \in Recipients :
        (/\ Batch /\ WellFormed /\ Quiescent
         /\ pms[i].state = "rejected"
         /\ \A j \in Recipients \ {i} : pms[j].state = "fulfilled")
        => /\ agg = "resolved"
           /\ IsFailureOf(i, results[i])
           /\ \A j \in Recipients \ {i} : IsSuccessOf(j, results[j])

(***************************************************************************)
(* C3: the aggregate is never resolved while one of its input operations   *)
(* is still pending.                                                       *)
(***************************************************************************)
C3_NoEarlyResolve ==
    (Batch /\ agg = "resolved") => \A i \in Recipients : Settled(pms[i])

\* the aggregate is still pending after one of two recipients has been
\* recorded, and the other one's transport call has not called back
C3_Witness ==
    /\ Batch /\ NumRecipients = 2 /\ agg = "pending"
    /\ req[1].status = "inflight"
    /\ req[2].status = "done" /\ writes[2] = 1 /\ ~LooseNull(results[2])

(***************************************************************************)
(* C4: lobToAll over an empty recipient list has resolved its aggregate,   *)
(* with an empty outcome list, as soon as no promise job is left to run.   *)
(***************************************************************************)
C4_EmptyListResolves ==
    (Batch /\ NumRecipients = 0 /\ Quiescent) =>
        agg = "resolved" /\ results = << >>

(***************************************************************************)
(* C5: for a non-empty list, once every operation has settled and every    *)
(* completion handler has run, the aggregate is resolved, whatever value   *)
(* each operation settled with.  Stated for calls with a credential,       *)
(* non-empty recipients and the body "hi".                                 *)
(***************************************************************************)
C5_AllSettledResolves ==
    (/\ Batch /\ WellFormed /\ NumRecipients >= 1 /\ Quiescent
     /\ \A i \in Recipients : Settled(pms[i]) /\ writes[i] >= 1)
    => agg = "resolved"

(***************************************************************************)
(* C6 (as claimed): for every body longer than 1024 characters no          *)
(* transport call is issued; lob rejects with 'Message is too long' tagged *)
(* with its recipient; in lobToAll every submission fails with that error  *)
(* tagged with its own recipient and, for N >= 1, the aggregate resolves   *)
(* with N failure slots.                                                   *)
(***************************************************************************)
C6_BatchTooLong ==
    Batch =>
        /\ \A i \in Recipients :
              pms[i] = Rejected(TooLongError(call.userTokens[i]))
        /\ (Quiescent /\ NumRecipients >= 1) =>
              /\ agg = "resolved"
              /\ results = [i \in Recipients |-> TooLongError(call.userTokens[i])]
              /\ ret = Fulfilled([t |-> "array", v |-> results])

C6_TooLongAsClaimed ==
    BodyIsTooLong =>
        /\ NoTransportCall /\ NoTimer
        /\ (Single /\ Quiescent) =>
              ret = Rejected(TooLongError(call.userTokens[1]))
        /\ C6_BatchTooLong

(***************************************************************************)
(* C6 (amended): as claimed for lobToAll; lob rejects with 'Message is too *)
(* long' tagged with its recipient when its credential and recipient       *)
(* checks pass, and with the error of the first failing check otherwise;   *)
(* in every case no transport call is issued.                              *)
(***************************************************************************)
C6_TooLongRejected ==
    BodyIsTooLong =>
        /\ NoTransportCall /\ NoTimer
        /\ (Single /\ ~Falsy(appToken) /\ ~Falsy(call.userTokens[1])) =>
              /\ pms = <<Rejected(TooLongError(call.userTokens[1]))>>
              /\ Quiescent => ret = Rejected(TooLongError(call.userTokens[1]))
        /\ (Single /\ Falsy(appToken)) =>
              ret = Rejected(Err("Error", "No application token!", Undefined))
        /\ (Single /\ ~Falsy(appToken) /\ Falsy(call.userTokens[1])) =>
              ret = Rejected(Err("Error", "No user token provided!", Undefined))
        /\ C6_BatchTooLong

\* lobToAll over two recipients with a 1025-character body has resolved
C6_Witness ==
    /\ Batch /\ BodyIsTooLong /\ NumRecipients = 2
    /\ agg = "resolved" /\ ret.state = "fulfilled"
    /\ results[1].t = "Error" /\ results[2].t = "Error"

(***************************************************************************)
(* C7: lob rejects with 'No application token!' when the instance was      *)
(* constructed without a credential, with an empty one or with a           *)
(* non-string; otherwise with 'No user token provided!' when the recipient *)
(* is empty or missing; otherwise with 'No message!' when the body is      *)
(* empty or missing.  In each case postToApi is not entered: no promise,   *)
(* no URL, no transport call, no timer.                                    *)
(***************************************************************************)
NoCredential == ctorArg.t # "string" \/ ctorArg.v = ""
NoRecipient == call.userTokens[1].t = "undefined" \/ call.userTokens[1] = Str("")
NoBody == call.message.t = "undefined" \/ call.message = Str("")

C7_LobValidation ==
    Single =>
        LET expected ==
                IF NoCredential THEN "No application token!"
                ELSE IF NoRecipient THEN "No user token provided!"
                ELSE "No message!"
        IN (NoCredential \/ NoRecipient \/ NoBody) =>
              /\ ret = Rejected(Err("Error", expected, Undefined))
              /\ pms = << >> /\ req = << >> /\ timers = << >>
              /\ microtasks = << >>

\* lob("", "hi") on an instance that has a credential
C7_Witness ==
    /\ Single /\ ~NoCredential /\ NoRecipient /\ ~NoBody
    /\ ret = Rejected(Err("Error", "No user token provided!", Undefined))

(***************************************************************************)
(* C8: when the transport invokes the callback of a submission with an     *)
(* error and no response data, that submission's promise is rejected with  *)
(* that error (so that lob rejects with it and the recipient's slot in     *)
(* lobToAll becomes a failure).                                            *)
(***************************************************************************)
C8_TransportErrorRejects ==
    [][\A i \in 1..MaxRecipients :
          TransportCallback(i, ErrorWithoutData) =>
              pms'[i] = Rejected(TransportError)]_vars

(***************************************************************************)
(* C9: in lobToAll, every slot that holds a failure holds an error whose   *)
(* target is the recipient at that index.  Stated for calls with a         *)
(* credential, non-empty recipients and the body "hi".                     *)
(***************************************************************************)
C9_FailuresTagged ==
    (Batch /\ WellFormed) =>
        \A i \in Recipients :
            results[i].t = "Error" => results[i].target = call.userTokens[i]

(***************************************************************************)
(* C10: a callback with a status other than 200 and a JSON body holding    *)
(* the errors ['invalid token','user inactive'] rejects the submission     *)
(* with 'HTTP <status>: invalid token user inactive', tagged with the      *)
(* recipient; it never fulfils it.                                         *)
(***************************************************************************)
C10_HttpError ==
    [][\A i \in 1..MaxRecipients : \A s \in Statuses \ {200} :
          TransportCallback(i, ErrorsResponse(s)) =>
              pms'[i] = Rejected(Err("Error",
                            "HTTP " \o ToString(s) \o ": invalid token user inactive",
                            call.userTokens[i]))]_vars

\* a status-500 answer with the two errors has been turned into the failure
C10_Witness ==
    \E i \in 1..Len(pms) :
        /\ req[i].status = "done"
        /\ pms[i] = Rejected(Err("Error", "HTTP 500: invalid token user inactive",
                                 call.userTokens[i]))

(***************************************************************************)
(* C11 (as claimed): a 200 answer whose body parses as JSON fulfils the    *)
(* submission with exactly the value of its `request` field, and one whose *)
(* body does not parse rejects it with a malformed-response error tagged   *)
(* with the recipient and containing the raw text; lob settles exactly as  *)
(* its submission did.                                                     *)
(***************************************************************************)
OkResponse(body) == [err |-> Null, statusCode |-> 200, data |-> Str(body)]
JsonObjectBodies == {BodyRequest, BodyRequestNull, BodyEmptyObject, BodyErrors}
RequestFieldOf(body) ==
    CASE body = BodyRequest -> Str("abc-123")
      [] body = BodyRequestNull -> Null
      [] OTHER -> Undefined
MalformedError(target, body) ==
    Err("Error", "Response from pushover.net is malformed? " \o body, target)

C11_LobReturnsOutcome ==
    (Single /\ Len(pms) = 1 /\ Quiescent /\ Settled(pms[1])) => ret = pms[1]

C11_ObjectAndUnparsable(i) ==
    /\ \A b \in JsonObjectBodies :
          TransportCallback(i, OkResponse(b)) =>
              pms'[i] = Fulfilled(RequestFieldOf(b))
    /\ TransportCallback(i, OkResponse(BodyNotJson)) =>
          pms'[i] = Rejected(MalformedError(call.userTokens[i], BodyNotJson))

C11_AsClaimed ==
    /\ []C11_LobReturnsOutcome
    /\ [][\A i \in 1..MaxRecipients :
             /\ C11_ObjectAndUnparsable(i)
             /\ TransportCallback(i, OkResponse(BodyNull)) =>
                   pms'[i].state = "fulfilled"]_vars

(***************************************************************************)
(* C11 (amended): a 200 answer whose body parses to a JSON object fulfils  *)
(* the submission with exactly the value of its `request` field; one whose *)
(* body does not parse, or parses to null, rejects it with the             *)
(* malformed-response error tagged with the recipient and containing the   *)
(* raw text; lob settles exactly as its submission did.                    *)
(***************************************************************************)
C11_Response200 ==
    /\ []C11_LobReturnsOutcome
    /\ [][\A i \in 1..MaxRecipients :
             /\ C11_ObjectAndUnparsable(i)
             /\ TransportCallback(i, OkResponse(BodyNull)) =>
                   pms'[i] = Rejected(MalformedError(call.userTokens[i], BodyNull))]_vars

\* lob has resolved with exactly "abc-123"
C11_Witness ==
    /\ Single /\ Len(req) = 1 /\ req[1].status = "done"
    /\ ret = Fulfilled(Str("abc-123"))

(***************************************************************************)
(* C12: for every title and device, each absent, empty or non-empty, a     *)
(* lob call that passes validation with a body of at most 1024 characters  *)
(* builds its URL and issues the request; the URL carries token, user and  *)
(* message, carries `title` exactly when title is a non-empty string and   *)
(* carries `device` exactly when device is a non-empty string.  Stated     *)
(* with simulate mode off, where the request keeps the URL.                *)
(***************************************************************************)
NonEmptyString(x) == x.t = "string" /\ x.v # ""
UrlKeys(url) == {url.params[k][1] : k \in 1..Len(url.params)}

C12_OptionalParams ==
    (/\ Single /\ ~NO_POST
     /\ ~(NoCredential \/ NoRecipient \/ NoBody) /\ ~BodyIsTooLong)
    => /\ Len(req) = 1 /\ req[1].status # "none"
       /\ LET keys == UrlKeys(req[1].url) IN
          /\ {"token", "user", "message"} \subseteq keys
          /\ "title" \in keys <=> NonEmptyString(call.title)
          /\ "device" \in keys <=> NonEmptyString(call.device)

(***************************************************************************)
(* C13: in lobToAll neither the aggregate nor the promise returned to the  *)
(* caller is ever rejected, whatever mix of successes and failures the     *)
(* recipients produce; once no promise job is pending, every failed        *)
(* submission's error is held as a value in that recipient's own slot.     *)
(***************************************************************************)
C13_NeverRejects ==
    Batch =>
        /\ agg \in {"pending", "resolved"}
        /\ ret.state # "rejected"
        /\ ret.state = "fulfilled" => agg = "resolved"
        /\ Quiescent =>
              \A i \in Recipients :
                  pms[i].state = "rejected" =>
                      results[i] = pms[i].value /\ writes[i] = 1

\* both recipients failed, for different reasons, and the caller's promise
\* is fulfilled with the two errors
C13_Witness ==
    /\ Batch /\ NumRecipients = 2 /\ Quiescent
    /\ pms[1].state = "rejected" /\ pms[2].state = "rejected"
    /\ pms[1].value # pms[2].value
    /\ req[1].status = "done" /\ req[2].status = "done"
    /\ ret = Fulfilled([t |-> "array", v |-> <<pms[1].value, pms[2].value>>])

(***************************************************************************)
(* C14: under every interleaving of completions ok(results) is invoked at  *)
(* most once; once the aggregate is resolved it stays resolved, no later   *)
(* step invokes ok again or raises, and the resolved outcome list is never *)
(* modified.                                                               *)
(***************************************************************************)
C14_ResolvedIsFinal ==
    (agg = "resolved") =>
        /\ agg' = "resolved"
        /\ results' = results
        /\ okCalls' = okCalls
        /\ \A i \in 1..Len(req) : req'[i].status = "threw" => req[i].status = "threw"

C14_ResolveOnce ==
    /\ [](okCalls <= 1 /\ (agg = "resolved" <=> okCalls = 1))
    /\ [][C14_ResolvedIsFinal]_vars

\* two recipients completed one after the other and ok(results) ran once
C14_Witness ==
    /\ Batch /\ NumRecipients = 2 /\ agg = "resolved" /\ okCalls = 1
    /\ writes = <<1, 1>>
    /\ req[1].status = "done" /\ req[2].status = "done"
    /\ ret.state = "fulfilled"

(***************************************************************************)
(* C15: in lobToAll with a body of at most 1024 characters, from the       *)
(* moment the method yields, hence before any completion handler has run   *)
(* and before any outcome is recorded, every recipient's submission has    *)
(* been started: its transport call has been issued for the recipient at   *)
(* its index (in simulate mode, its timer has been set).                   *)
(***************************************************************************)
C15_AllLaunchedFirst ==
    (Batch /\ call.message.t = "string" /\ ~BodyIsTooLong) =>
        \A i \in Recipients :
            IF NO_POST THEN timers[i] # "none" /\ req[i].status = "none"
            ELSE /\ req[i].status # "none"
                 /\ req[i].url.params[2] = <<"user", ToStr(call.userTokens[i])>>

\* both transport calls are out and nothing has been recorded yet
C15_Witness ==
    /\ Batch /\ NumRecipients = 2 /\ ~NO_POST
    /\ req[1].status = "inflight" /\ req[2].status = "inflight"
    /\ call.userTokens[1] # call.userTokens[2]
    /\ writes = <<0, 0>> /\ agg = "pending"

(***************************************************************************)
(* C16: during the life of one aggregate every slot of `results` is        *)
(* written at most once, only by the handler of the operation at that      *)
(* index and only after that operation has settled: a written slot holds   *)
(* its own operation's outcome and an unwritten slot is still empty.       *)
(***************************************************************************)
C16_SlotWrittenOnce ==
    Batch =>
        /\ Len(writes) = NumRecipients
        /\ \A i \in Recipients :
              /\ writes[i] <= 1
              /\ writes[i] = 1 => Settled(pms[i]) /\ results[i] = pms[i].value
              /\ writes[i] = 0 => results[i] = Undefined

\* one slot written from a rejection, the other from a fulfilment
C16_Witness ==
    /\ Batch /\ NumRecipients = 2 /\ writes = <<1, 1>>
    /\ pms[1].state = "rejected" /\ pms[2].state = "fulfilled"
    /\ results[1] = pms[1].value /\ results[2] = pms[2].value

(***************************************************************************)
(* C17: in lobToAll, for a recipient affected by a validation failure (the *)
(* instance has no credential, that recipient's token is empty, or the     *)
(* body is empty or missing) no transport call is issued and no simulate   *)
(* timer is set, and once no promise job is pending the failure is held in *)
(* that recipient's slot.                                                  *)
(***************************************************************************)
C17_BatchValidation ==
    Batch =>
        \A i \in Recipients :
            (NoCredential \/ Falsy(call.userTokens[i]) \/ NoBody) =>
                /\ req[i].status = "none"
                /\ timers[i] = "none"
                /\ Quiescent => results[i].t = "Error"

(***************************************************************************)
(* C18: every invocation of the transport callback with a response (any    *)
(* status, any body) settles its submission's promise and throws nothing   *)
(* out of the callback.  Stated for the invocations that carry a response; *)
(* the invocation with a transport error and no data is C8.                *)
(***************************************************************************)
C18_CallbackSettles ==
    [][\A i \in 1..MaxRecipients : \A r \in Responses :
          (r.err = Null /\ TransportCallback(i, r)) =>
              Settled(pms'[i]) /\ req'[i].status = "done"]_vars

====
